---- MODULE Spec2Model ----
(***************************************************************************)
(* remotefs-webdav: the PROPFIND response parser (src/parser.rs), the       *)
(* multistatus element (src/webdav_xml/elements/multistatus.rs) and the    *)
(* WebDAVFs client (src/lib.rs).                                           *)
(*                                                                         *)
(* Strings the code inspects character by character (hrefs, numeric text)  *)
(* are sequences of one-character strings; other text is a sequence of     *)
(* whitespace-separated tokens.  Option<T> is a sequence of length 0 or 1. *)
(***************************************************************************)
EXTENDS Integers, Sequences, FiniteSets, TLC

VARIABLES
    response,     \* ResponseParser.response: [status, body] as the transport returned it
    localDirs,    \* the paths that are directories on the machine running the client
    op,           \* the ResponseParser function called last ("none" after construction)
    result,       \* what that call returned
    bodyRead,     \* whether response.bytes() has consumed the body
    multistatus,  \* the Multistatus that parse_propfind decoded last ("parsed multistatus")
    runs,         \* what parse_propfind returned, run after run, on the bytes of `response`
    original,     \* a Multistatus about to be encoded
    encoded,      \* Some(Value::from(original)) once it is encoded
    decodedBack,  \* what Multistatus::try_from made of `encoded`
    wrkdir,       \* WebDAVFs.wrkdir
    connected,    \* WebDAVFs.connected
    pc,           \* "await" while an operation waits for the transport, else "idle"
    call,         \* the WebDAVFs operation called last, with its arguments
    ret,          \* what that operation returned
    requests,     \* the requests it handed to the transport, in order
    replies,      \* what the transport handed back for them, in order
    again,        \* that operation is a create_dir of the path of a create_dir
                  \* that succeeded directly before it
    session       \* the one of connect and disconnect called last ("new" before both)

vars == <<response, localDirs, op, result, bodyRead, multistatus, runs, original, encoded,
          decodedBack, wrkdir, connected, pc, call, ret, requests, replies, again,
          session>>

-----------------------------------------------------------------------------
(* Bounds *)

\* the largest number of child elements of the multistatus root element
MaxChildren == 2

\* the largest number of responses of a Multistatus that is encoded
MaxResponses == 2

\* how often the reducer is run on the same bytes
MaxRuns == 2

\* the largest number of components of the working directory
MaxDepth == 1

\* the largest number of bytes a reader or a response body holds
MaxContent == 1

-----------------------------------------------------------------------------
(* Option and Result *)

None == <<>>
Some(x) == <<x>>

Ok(v) == [tag |-> "Ok", val |-> v, err |-> "none"]
Err(e) == [tag |-> "Err", val |-> <<>>, err |-> e]
IsOk(r) == r.tag = "Ok"

-----------------------------------------------------------------------------
(* Value and ValueMap (spec.md section 3) *)

Empty == [tag |-> "Empty", text |-> <<>>, entries |-> <<>>]
Text(s) == [tag |-> "Text", text |-> s, entries |-> <<>>]
Map(m) == [tag |-> "Map", text |-> <<>>, entries |-> m]
List(l) == [tag |-> "List", text |-> <<>>, entries |-> l]

is_list(v) == v.tag = "List"
is_map(v) == v.tag = "Map"

\* Value::to_map: only a Map is a map
to_map(v) == IF v.tag = "Map" THEN Ok(v.entries) ELSE Err("decode")

\* Value::to_list: only a List is a list
to_list(v) == IF v.tag = "List" THEN Ok(v.entries) ELSE Err("decode")

\* the index of `key` in the ordered map `m`, 0 when it has no such key
KeyIndex(m, key) ==
    IF \E i \in 1..Len(m) : m[i].key = key
    THEN CHOOSE i \in 1..Len(m) : m[i].key = key
    ELSE 0

\* ValueMap insertion is append-only: a key seen again is merged into a List
InsertAt(m, i, key, v) ==
    IF i = 0 THEN Append(m, [key |-> key, value |-> v])
    ELSE [m EXCEPT ![i].value =
            IF is_list(@) THEN List(Append(@.entries, v)) ELSE List(<<@, v>>)]

Insert(m, key, v) == InsertAt(m, KeyIndex(m, key), key, v)

\* ValueMap lookup by qualified name
EntryAt(m, i) == IF i = 0 THEN None ELSE Some(m[i].value)

Lookup(m, key) == EntryAt(m, KeyIndex(m, key))

-----------------------------------------------------------------------------
(* The generic XML parse: element tree -> Value (spec.md sections 1 and 3) *)

\* an XML element: a qualified name and either text or child elements
Elem(name, text, children) == [name |-> name, text |-> text, children |-> children]

RECURSIVE parse_xml(_)
RECURSIVE BuildMap(_, _)

\* the ValueMap of a sequence of sibling elements, inserted in document order
BuildMap(children, m) ==
    IF children = <<>> THEN m
    ELSE BuildMap(Tail(children),
                  Insert(m, Head(children).name, parse_xml(Head(children))))

parse_xml(e) ==
    IF e.children # <<>> THEN Map(BuildMap(e.children, <<>>))
    ELSE IF e.text # <<>> THEN Text(e.text)
    ELSE Empty

-----------------------------------------------------------------------------
(* Text decoding helpers *)

Digits == {"0", "1", "2", "3", "4", "5", "6", "7", "8", "9"}

DigitVal(c) ==
    CASE c = "0" -> 0 [] c = "1" -> 1 [] c = "2" -> 2 [] c = "3" -> 3 [] c = "4" -> 4
      [] c = "5" -> 5 [] c = "6" -> 6 [] c = "7" -> 7 [] c = "8" -> 8 [] c = "9" -> 9

RECURSIVE DecimalValue(_)
\* the number a sequence of digits denotes
DecimalValue(s) ==
    IF s = <<>> THEN 0
    ELSE 10 * DecimalValue(SubSeq(s, 1, Len(s) - 1)) + DigitVal(s[Len(s)])

\* str::parse::<u64>: a non-empty run of decimal digits
ParseU64(s) ==
    IF s # <<>> /\ \A i \in 1..Len(s) : s[i] \in Digits
    THEN Ok(DecimalValue(s)) ELSE Err("decode")

RECURSIVE SplitSpaces(_, _)
\* the pieces of `s` between single spaces, `cur` being the piece under way
SplitSpaces(s, cur) ==
    IF s = <<>> THEN <<cur>>
    ELSE IF Head(s) = " " THEN <<cur>> \o SplitSpaces(Tail(s), <<>>)
    ELSE SplitSpaces(Tail(s), Append(cur, Head(s)))

\* the timestamps of the date strings the servers of the tests send
Rfc3339Dates == {"2024-03-02T15:44:46Z", "2024-03-02T15:40:53Z"}
HttpDates == {"Sat, 02 Mar 2024 15:44:46 GMT", "Sat, 02 Mar 2024 15:40:53 GMT"}

Timestamp(d) ==
    CASE d \in {"2024-03-02T15:44:46Z", "Sat, 02 Mar 2024 15:44:46 GMT"} -> 1709394286
      [] d \in {"2024-03-02T15:40:53Z", "Sat, 02 Mar 2024 15:40:53 GMT"} -> 1709394053

-----------------------------------------------------------------------------
(* Qualified names *)

ResponseName == "DAV:response"
HrefName == "DAV:href"
PropstatName == "DAV:propstat"
PropName == "DAV:prop"
StatusName == "DAV:status"
ResponseDescriptionName == "DAV:responsedescription"
CreationDateName == "DAV:creationdate"
LastModifiedName == "DAV:getlastmodified"
ContentLengthName == "DAV:getcontentlength"

-----------------------------------------------------------------------------
(* Typed properties and structural elements (spec.md sections 4.1 - 4.4) *)

\* CreationDate: a Text holding an RFC 3339 timestamp
CreationDateTryFrom(v) ==
    IF v.tag = "Text" /\ Len(v.text) = 1 /\ v.text[1] \in Rfc3339Dates
    THEN Ok(Timestamp(v.text[1])) ELSE Err("decode")

\* LastModified: a Text holding an HTTP-date
LastModifiedTryFrom(v) ==
    IF v.tag = "Text" /\ Len(v.text) = 1 /\ v.text[1] \in HttpDates
    THEN Ok(Timestamp(v.text[1])) ELSE Err("decode")

\* ContentLength: a Text holding a non-negative integer
ContentLengthTryFrom(v) ==
    IF v.tag = "Text" THEN ParseU64(v.text) ELSE Err("decode")

\* Href: a pass-through Text wrapper
HrefTryFrom(v) == IF v.tag = "Text" THEN Ok(v.text) ELSE Err("decode")

\* ResponseDescription: free text
ResponseDescriptionTryFrom(v) == IF v.tag = "Text" THEN Ok(v.text) ELSE Err("decode")

\* Status: "HTTP/<version> <code> <reason>", <code> a 3-digit integer
StatusOfParts(parts) ==
    IF Len(parts) >= 3 /\ Len(parts[2]) = 3 THEN ParseU64(parts[2]) ELSE Err("decode")

StatusTryFrom(v) ==
    IF v.tag # "Text" THEN Err("decode") ELSE StatusOfParts(SplitSpaces(v.text, <<>>))

\* Properties: the ValueMap of a `prop` element
PropertiesTryFrom(v) == to_map(v)

\* T::try_from for the element type T of a qualified name
TryFromElement(name, v) ==
    CASE name = CreationDateName -> CreationDateTryFrom(v)
      [] name = LastModifiedName -> LastModifiedTryFrom(v)
      [] name = ContentLengthName -> ContentLengthTryFrom(v)
      [] name = HrefName -> HrefTryFrom(v)
      [] name = StatusName -> StatusTryFrom(v)
      [] name = ResponseDescriptionName -> ResponseDescriptionTryFrom(v)
      [] name = PropName -> PropertiesTryFrom(v)

\* ValueMap::get::<T>: absent, or the outcome of decoding the child
Decode(v, name) == IF v = None THEN None ELSE Some(TryFromElement(name, v[1]))

get(m, name) == Decode(Lookup(m, name), name)

\* ValueMap::get_optional::<T>: absent / present but empty / the outcome of decoding
DecodeOptional(v, name) ==
    IF v = None THEN None
    ELSE IF v[1].tag = "Empty" THEN Some(None)
    ELSE Some(Some(TryFromElement(name, v[1])))

get_optional(m, name) == DecodeOptional(Lookup(m, name), name)

creationdate(props) == get_optional(props, CreationDateName)
getlastmodified(props) == get_optional(props, LastModifiedName)
getcontentlength(props) == get_optional(props, ContentLengthName)

\* Propstat { prop, status } from the two decoded children: both are required
PropstatOf(prop, st) ==
    IF prop = None \/ st = None THEN Err("decode")
    ELSE IF ~IsOk(prop[1]) \/ ~IsOk(st[1]) THEN Err("decode")
    ELSE Ok([prop |-> prop[1].val, status |-> st[1].val])

\* the children of a propstat Map
PropstatFromMap(m) ==
    IF ~IsOk(m) THEN Err("decode")
    ELSE PropstatOf(get(m.val, PropName),
                    get(m.val, StatusName))

PropstatTryFrom(v) == PropstatFromMap(to_map(v))

\* a decoded item, then the decoded rest: an error of either is the error
Cons(first, rest) ==
    IF ~IsOk(first) \/ ~IsOk(rest) THEN Err("decode") ELSE Ok(<<first.val>> \o rest.val)

RECURSIVE PropstatsTryFrom(_)
\* decode every propstat in order, failing when one fails
PropstatsTryFrom(items) ==
    IF items = <<>> THEN Ok(<<>>)
    ELSE Cons(PropstatTryFrom(Head(items)), PropstatsTryFrom(Tail(items)))

\* every occurrence of a child, in document order
AllOf(v) == IF v = None THEN <<>> ELSE IF is_list(v[1]) THEN v[1].entries ELSE <<v[1]>>

iter_all(m, key) == AllOf(Lookup(m, key))

\* Response: the propstat-bearing shape or the status-only shape, told apart by
\* the children present; any other shape is a decode failure
ResponseOf(href, st, propstat) ==
    IF href = None \/ ~IsOk(propstat) THEN Err("decode")
    ELSE IF ~IsOk(href[1]) THEN Err("decode")
    ELSE IF st = None /\ propstat.val # <<>>
         THEN Ok([variant |-> "Propstat", href |-> href[1].val,
                  propstat |-> propstat.val, status |-> 0])
    ELSE IF st # None /\ propstat.val = <<>>
         THEN IF IsOk(st[1])
              THEN Ok([variant |-> "Status", href |-> href[1].val,
                       propstat |-> <<>>, status |-> st[1].val])
              ELSE Err("decode")
    ELSE Err("decode")

\* the children of a response Map
ResponseFromMap(m) ==
    IF ~IsOk(m) THEN Err("decode")
    ELSE ResponseOf(get(m.val, HrefName),
                    get(m.val, StatusName),
                    PropstatsTryFrom(iter_all(m.val, PropstatName)))

ResponseTryFrom(v) == ResponseFromMap(to_map(v))

-----------------------------------------------------------------------------
(* Multistatus (src/webdav_xml/elements/multistatus.rs) *)

\* acc.push(Response::try_from(item)?)
Push(acc, r) == IF IsOk(r) THEN Ok(Append(acc, r.val)) ELSE Err("decode")

RECURSIVE iter_response_items(_, _)
RECURSIVE IterListItems(_, _)
RECURSIVE IterRest(_, _)

\* the `for item in value.to_list()?` loop of iter_response_items
IterListItems(acc, items) ==
    IF items = <<>> THEN Ok(acc)
    ELSE IterRest(IF is_list(Head(items)) THEN iter_response_items(acc, Head(items))
                  ELSE Push(acc, ResponseTryFrom(Head(items))),
                  Tail(items))

\* the loop goes on with the items left, unless the item before them failed
IterRest(step, items) ==
    IF IsOk(step) THEN IterListItems(step.val, items) ELSE Err("decode")

iter_response_items(acc, value) ==
    IF is_list(value) THEN IterListItems(acc, value.entries)
    ELSE IF is_map(value) THEN Push(acc, ResponseTryFrom(value))
    ELSE Ok(acc)

RECURSIVE CollectResponses(_, _)
RECURSIVE ExtendResponses(_, _, _)

\* the `for (_, value) in &map.0` loop: every entry of the map, whatever its key
CollectResponses(entries, responses) ==
    IF entries = <<>> THEN Ok(responses)
    ELSE ExtendResponses(Tail(entries), responses,
                         iter_response_items(<<>>, Head(entries).value))

\* ExtendResponses dropping the entries that fail to decode
ExtendResponsesSkippingErrors(entries, responses, items) ==
    IF IsOk(items) THEN CollectResponses(entries, responses \o items.val)
    ELSE CollectResponses(entries, responses)

\* response.extend(items?)
ExtendResponses(entries, responses, items) ==
    IF IsOk(items) THEN CollectResponses(entries, responses \o items.val)
    ELSE Err("decode")

\* Multistatus { response, responsedescription: map.get().transpose()? }
MultistatusOf(responses, responsedescription) ==
    IF ~IsOk(responses) THEN Err("decode")
    ELSE IF responsedescription # None /\ ~IsOk(responsedescription[1])
         THEN Err("decode")
    ELSE Ok([response |-> responses.val,
             responsedescription |->
                 IF responsedescription = None THEN None
                 ELSE Some(responsedescription[1].val)])

MultistatusFromMap(map) ==
    IF ~IsOk(map) THEN Err("decode")
    ELSE MultistatusOf(CollectResponses(map.val, <<>>),
                       get(map.val, ResponseDescriptionName))

MultistatusTryFrom(value) == MultistatusFromMap(to_map(value))

-----------------------------------------------------------------------------
(* Encoding: typed elements back into a Value *)

DigitOf(n) ==
    CASE n = 0 -> "0" [] n = 1 -> "1" [] n = 2 -> "2" [] n = 3 -> "3" [] n = 4 -> "4"
      [] n = 5 -> "5" [] n = 6 -> "6" [] n = 7 -> "7" [] n = 8 -> "8" [] n = 9 -> "9"

\* Value::from(Status): the status line of a three-digit code
ValueFromStatus(code) ==
    Text(<<"HTTP/1.1", " ", DigitOf(code \div 100), DigitOf((code \div 10) % 10),
           DigitOf(code % 10), " ", "reason">>)

\* Value::from(Propstat): a Map of the prop and the status children
ValueFromPropstat(p) ==
    Map(Insert(Insert(<<>>, PropName, Map(p.prop)), StatusName, ValueFromStatus(p.status)))

\* Value::from(Response): a Map of href and either the propstats or the status
ValueFromResponse(r) ==
    IF r.variant = "Propstat"
    THEN Map(Insert(Insert(<<>>, HrefName, Text(r.href)), PropstatName,
                    List([i \in 1..Len(r.propstat) |-> ValueFromPropstat(r.propstat[i])])))
    ELSE Map(Insert(Insert(<<>>, HrefName, Text(r.href)), StatusName,
                    ValueFromStatus(r.status)))

\* NonEmpty::collect(response.into_iter().map(Value::from)): a List, or Empty for none
ResponsesValue(responses) ==
    IF responses = <<>> THEN Empty
    ELSE List([i \in 1..Len(responses) |-> ValueFromResponse(responses[i])])

\* `if let Some(responsedescription) = responsedescription { map.insert(..) }`
InsertDescription(map, responsedescription) ==
    IF responsedescription = None THEN map
    ELSE Insert(map, ResponseDescriptionName, Text(responsedescription[1]))

\* ValueFromMultistatus leaving the responsedescription out
ValueFromMultistatusWithoutDescription(m) ==
    Map(Insert(<<>>, ResponseName, ResponsesValue(m.response)))

\* impl From<Multistatus> for Value
ValueFromMultistatus(m) ==
    Map(InsertDescription(Insert(<<>>, ResponseName, ResponsesValue(m.response)),
                          m.responsedescription))

\* the response body as the transport hands it over: unreadable (the read fails),
\* not well-formed XML, or the element tree of a well-formed document
Unreadable == [kind |-> "unreadable", root |-> Elem("", <<>>, <<>>)]
Malformed == [kind |-> "malformed", root |-> Elem("", <<>>, <<>>)]
Document(root) == [kind |-> "xml", root |-> root]

\* FromXml::from_xml: the generic parse, then the typed decoding
from_xml(bytes) ==
    IF bytes.kind # "xml" THEN Err("decode") ELSE MultistatusTryFrom(parse_xml(bytes.root))

-----------------------------------------------------------------------------
(* ResponseParser (src/parser.rs) *)

\* StatusCode::is_success
is_success(code) == 200 <= code /\ code <= 299

\* status() without the 400 arm
status_without_400(r) ==
    IF is_success(r.status) THEN Ok(<<>>)
    ELSE CASE r.status = 401 -> Err("AuthenticationFailed")
           [] r.status = 403 -> Err("CouldNotOpenFile")
           [] r.status = 404 -> Err("NoSuchFileOrDirectory")
           [] OTHER -> Err("ProtocolError")

\* ResponseParser::status
status(r) ==
    IF is_success(r.status) THEN Ok(<<>>)
    ELSE CASE r.status = 401 -> Err("AuthenticationFailed")
           [] r.status = 403 -> Err("CouldNotOpenFile")
           [] r.status \in {400, 404} -> Err("NoSuchFileOrDirectory")
           [] OTHER -> Err("ProtocolError")

\* str::ends_with('/')
ends_with_slash(s) == s # <<>> /\ s[Len(s)] = "/"

\* Path::is_dir, asked of the machine the client runs on
is_dir(path, dirs) == path \in dirs

\* Metadata::default()
DefaultMetadata == [created |-> None, modified |-> None, size |-> 0, file_type |-> "File"]

\* the body of `for props in propstats.map(|x| x.prop)`: one File per prop block
\* `if let Some(Some(Ok(x))) = ...`
IsSomeSomeOk(x) == x # None /\ x[1] # None /\ IsOk(x[1][1])

\* `if let Some(Some(Err(_)))`
IsSomeSomeErr(x) == x # None /\ x[1] # None /\ ~IsOk(x[1][1])

\* FileFrom taking a property that is present but empty for the zero value of its type
FileFromEmptyAsZero(href, cd, lm, cl, dirs) ==
    [path |-> href,
     metadata |->
       [created |-> IF IsSomeSomeOk(cd) THEN Some(cd[1][1].val)
                    ELSE IF cd = Some(None) THEN Some(0) ELSE DefaultMetadata.created,
        modified |-> IF IsSomeSomeOk(lm) THEN Some(lm[1][1].val)
                     ELSE IF lm = Some(None) THEN Some(0) ELSE DefaultMetadata.modified,
        size |-> IF IsSomeSomeOk(cl) THEN cl[1][1].val ELSE DefaultMetadata.size,
        file_type |-> IF ends_with_slash(href) \/ is_dir(href, dirs)
                      THEN "Directory" ELSE "File"]]

\* FileFrom giving up on the metadata of a prop block once one property fails to decode
FileFromGivingUp(href, cd, lm, cl, dirs) ==
    [path |-> href,
     metadata |->
       [created |-> IF IsSomeSomeErr(cd) \/ IsSomeSomeErr(lm) \/ IsSomeSomeErr(cl)
                    THEN DefaultMetadata.created
                    ELSE IF IsSomeSomeOk(cd) THEN Some(cd[1][1].val)
                    ELSE DefaultMetadata.created,
        modified |-> IF IsSomeSomeErr(cd) \/ IsSomeSomeErr(lm) \/ IsSomeSomeErr(cl)
                     THEN DefaultMetadata.modified
                     ELSE IF IsSomeSomeOk(lm) THEN Some(lm[1][1].val)
                     ELSE DefaultMetadata.modified,
        size |-> IF IsSomeSomeErr(cd) \/ IsSomeSomeErr(lm) \/ IsSomeSomeErr(cl)
                 THEN DefaultMetadata.size
                 ELSE IF IsSomeSomeOk(cl) THEN cl[1][1].val ELSE DefaultMetadata.size,
        file_type |-> IF ends_with_slash(href) \/ is_dir(href, dirs)
                      THEN "Directory" ELSE "File"]]

\* one File from the path and the three accessors' answers
FileFrom(href, cd, lm, cl, dirs) ==
    [path |-> href,
     metadata |->
       [created |-> IF IsSomeSomeOk(cd) THEN Some(cd[1][1].val) ELSE DefaultMetadata.created,
        modified |-> IF IsSomeSomeOk(lm) THEN Some(lm[1][1].val) ELSE DefaultMetadata.modified,
        size |-> IF IsSomeSomeOk(cl) THEN cl[1][1].val ELSE DefaultMetadata.size,
        file_type |-> IF ends_with_slash(href) \/ is_dir(href, dirs)
                      THEN "Directory" ELSE "File"]]

FileOf(href, props, dirs) ==
    FileFrom(href, creationdate(props), getlastmodified(props), getcontentlength(props), dirs)

\* ResponseFiles reading the first propstat only
ResponseFilesFirstPropstat(r, dirs) ==
    IF r.variant = "Propstat"
    THEN <<FileOf(r.href, r.propstat[1].prop, dirs)>>
    ELSE <<>>

\* the files one Response contributes: none unless it is the Propstat variant
ResponseFiles(r, dirs) ==
    IF r.variant = "Propstat"
    THEN [i \in 1..Len(r.propstat) |-> FileOf(r.href, r.propstat[i].prop, dirs)]
    ELSE <<>>

RECURSIVE CollectFiles(_, _)
\* the `for response in multistatus.response` loop
CollectFiles(responses, dirs) ==
    IF responses = <<>> THEN <<>>
    ELSE ResponseFiles(Head(responses), dirs) \o CollectFiles(Tail(responses), dirs)

\* ResponseParser::parse_propfind
FilesOfMultistatus(ms, dirs) ==
    IF ~IsOk(ms) THEN Err("ProtocolError")
    ELSE Ok(CollectFiles(ms.val.response, dirs))

parse_propfind(bytes, dirs) == FilesOfMultistatus(from_xml(bytes), dirs)

\* the first error of two results, else the second result
Then(first, second) == IF IsOk(first) THEN second ELSE Err(first.err)

\* files() parsing the body before it looks at the status
files_body_first(r, dirs) ==
    IF r.body.kind = "unreadable" THEN Err("IoError")
    ELSE Then(parse_propfind(r.body, dirs), Then(status(r), parse_propfind(r.body, dirs)))

\* ResponseParser::files
files(r, dirs) ==
    IF ~is_success(r.status) THEN Err(status(r).err)
    ELSE IF r.body.kind = "unreadable" THEN Err("IoError")
    ELSE parse_propfind(r.body, dirs)

\* whether files() gets as far as self.response.bytes()
files_reads_bytes(r) == is_success(r.status)

\* whether files() gets as far as Self::parse_propfind(bytes)
files_parses(r) == is_success(r.status) /\ r.body.kind # "unreadable"

-----------------------------------------------------------------------------
(* WebDAVFs (src/lib.rs) *)

\* Path::is_absolute
is_absolute(p) == p # <<>> /\ p[1] = "/"

\* Path::join: an absolute path replaces the base, a relative one is appended
\* after a separator the base may lack
join(base, p) ==
    IF is_absolute(p) THEN p
    ELSE IF ends_with_slash(base) THEN base \o p
    ELSE base \o <<"/">> \o p

\* WebDAVFs::path
path(cwd, p) == IF is_absolute(p) THEN p ELSE join(cwd, p)

\* `if !p.ends_with('/') && cond { p.push('/') }`
PushSlash(p, cond) == IF ~ends_with_slash(p) /\ cond THEN Append(p, "/") ELSE p

\* WebDAVFs::url
url(base, cwd, p, force_dir, dirs) ==
    PushSlash(base \o path(cwd, p), is_dir(p, dirs) \/ force_dir)

\* what the transport hands back: an error, or a response
TransportError == [kind |-> "error", status |-> 0, body |-> Malformed]
TransportResponse(code, body) == [kind |-> "response", status |-> code, body |-> body]

\* `.map_err(ProtocolError)?; ResponseParser::from(response).status()` reading
\* the body of a 2xx response as well
request_status_reading_body(reply) ==
    IF reply.kind = "error" THEN Err("ProtocolError")
    ELSE IF ~IsOk(status(reply)) THEN status(reply)
    ELSE IF reply.body.kind = "unreadable" THEN Err("IoError")
    ELSE Ok(<<>>)

\* `.map_err(ProtocolError)?; ResponseParser::from(response).status()`
request_status(reply) ==
    IF reply.kind = "error" THEN Err("ProtocolError") ELSE status(reply)

\* `.map_err(ProtocolError)?; ResponseParser::from(response).files()?`
request_files(reply, dirs) ==
    IF reply.kind = "error" THEN Err("ProtocolError") ELSE files(reply, dirs)

\* list_dir keeping the first record
ListDirKeepingFirst(f) ==
    IF ~IsOk(f) THEN Err(f.err)
    ELSE IF f.val # <<>> THEN Ok(f.val)
    ELSE Err("NoSuchFileOrDirectory")

\* WebDAVFs::list_dir, from the files of the reply to its PROPFIND:
\* files.iter().skip(1), or NoSuchFileOrDirectory
list_dir(f) ==
    IF ~IsOk(f) THEN Err(f.err)
    ELSE IF f.val # <<>> THEN Ok(Tail(f.val))
    ELSE Err("NoSuchFileOrDirectory")

\* WebDAVFs::stat, from the files of the reply to its PROPFIND: files[0], or
\* NoSuchFileOrDirectory
stat(f) ==
    IF ~IsOk(f) THEN Err(f.err)
    ELSE IF f.val # <<>> THEN Ok(f.val[1])
    ELSE Err("NoSuchFileOrDirectory")

\* exists handing on the errors that are not NoSuchFileOrDirectory
ExistsHandingOnErrors(st) ==
    IF IsOk(st) THEN Ok(TRUE)
    ELSE IF st.err = "NoSuchFileOrDirectory" THEN Ok(FALSE)
    ELSE Err(st.err)

\* WebDAVFs::exists, from the outcome of its stat: Ok(self.stat(path).is_ok())
exists(st) == Ok(IsOk(st))

\* create_file: the status of the PUT, then the number of bytes read
create_file(reply, size) == Then(request_status(reply), Ok(size))

\* create_dir issuing the MKCOL whatever stat says
MkcolIssuedAlways(st) == TRUE

\* `if self.stat(path).is_ok() { return Err(DirectoryAlreadyExists) }`: the MKCOL
\* is issued when stat failed
MkcolIssued(st) == ~IsOk(st)

\* change_dir assigning the working directory before it lists the target
WrkdirAssignedFirst(cwd, new_dir, listing) == PushSlash(new_dir, TRUE)

\* change_dir assigning the target as it is
WrkdirWithoutSlash(cwd, new_dir, listing) == IF IsOk(listing) THEN new_dir ELSE cwd

\* the working directory change_dir leaves behind
WrkdirAfter(cwd, new_dir, listing) ==
    IF IsOk(listing) THEN PushSlash(new_dir, TRUE) ELSE cwd

\* what change_dir returns: the error of the listing, or the resolved target
ChangeDirOf(new_dir, listing) == IF IsOk(listing) THEN Ok(new_dir) ELSE Err(listing.err)

\* open_file: the bytes copied to dest, unless reading or writing fails
open_file(reply, size, writes) ==
    IF reply.kind = "error" THEN Err("ProtocolError")
    ELSE IF reply.body.kind = "unreadable" THEN Err("IoError")
    ELSE IF size > 0 /\ ~writes THEN Err("IoError")
    ELSE Ok(size)

-----------------------------------------------------------------------------
(* The responses the transport may return *)

StatusCodes == {199, 200, 207, 299, 300, 400, 401, 403, 404, 500}

HrefDir == <<"/", "c", "/">>
HrefFile == <<"/", "c", "/", "b">>
HrefTmp == <<"/", "t">>
HrefGone == <<"/", "g">>
HrefLocked == <<"/", "l">>
HrefOther == <<"/", "x">>

\* the paths that may or may not be directories of the local machine
LocalPaths == {HrefTmp, HrefFile}

StatusOk == <<"HTTP/1.1", " ", "2", "0", "0", " ", "OK">>
StatusNotFound == <<"HTTP/1.1", " ", "4", "0", "4", " ", "Not", " ", "Found">>
StatusLocked == <<"HTTP/1.1", " ", "4", "2", "3", " ", "Locked">>

\* a property element in one of the four states of its accessor
PropertyStates == {"absent", "empty", "ok", "bad"}

PropertyElem(name, state, text) ==
    CASE state = "absent" -> <<>>
      [] state = "empty" -> <<Elem(name, <<>>, <<>>)>>
      [] state = "ok" -> <<Elem(name, text, <<>>)>>
      [] state = "bad" -> <<Elem(name, <<"n", "/", "a">>, <<>>)>>

\* a prop element: resourcetype, then the three properties the parser reads
PropElem(cd, lm, cl) ==
    Elem(PropName, <<>>,
         <<Elem("DAV:resourcetype", <<>>, <<>>)>>
         \o PropertyElem(CreationDateName, cd, <<"2024-03-02T15:44:46Z">>)
         \o PropertyElem(ContentLengthName, cl, <<"4", "8", "6">>)
         \o PropertyElem(LastModifiedName, lm, <<"Sat, 02 Mar 2024 15:44:46 GMT">>))

PropstatElem(prop, statusLine) ==
    Elem(PropstatName, <<>>, <<prop, Elem(StatusName, statusLine, <<>>)>>)

ResponseChildren(href, propstats) == <<Elem(HrefName, href, <<>>)>> \o propstats

ResponseElem(href, propstats) == Elem(ResponseName, <<>>, ResponseChildren(href, propstats))

\* the child elements a multistatus root is assembled from
ResponseElems ==
    { ResponseElem(HrefDir, <<PropstatElem(PropElem("ok", "ok", "absent"), StatusOk)>>),
      ResponseElem(HrefFile, <<PropstatElem(PropElem("ok", "ok", "ok"), StatusOk)>>),
      ResponseElem(HrefTmp, <<PropstatElem(PropElem("bad", "ok", "absent"), StatusOk),
                              PropstatElem(PropElem("empty", "absent", "empty"), StatusNotFound)>>),
      ResponseElem(HrefGone, <<PropstatElem(PropElem("absent", "absent", "empty"), StatusNotFound)>>),
      \* the status-only shape
      Elem(ResponseName, <<>>, <<Elem(HrefName, HrefLocked, <<>>),
                                 Elem(StatusName, StatusLocked, <<>>)>>),
      \* a response without href
      Elem(ResponseName, <<>>, <<PropstatElem(PropElem("ok", "ok", "ok"), StatusOk)>>) }

UnknownName == "X:note"

UnknownElems ==
    { Elem(UnknownName, <<>>, <<>>),
      Elem(UnknownName, <<"n">>, <<>>),
      Elem(UnknownName, <<>>, <<Elem("X:k", <<"v">>, <<>>)>>),
      Elem(UnknownName, <<>>,
           ResponseChildren(HrefOther, <<PropstatElem(PropElem("ok", "ok", "ok"), StatusOk)>>)) }

ChildElems ==
    ResponseElems \cup UnknownElems \cup {Elem(ResponseDescriptionName, <<"d">>, <<>>)}

MultistatusElem(children) == Elem("DAV:multistatus", <<>>, children)

\* multistatus documents of up to MaxChildren children
StructureDocs ==
    { Document(MultistatusElem(children)) :
        children \in UNION {[1..n -> ChildElems] : n \in 0..MaxChildren} }

\* one response with one propstat, its three properties in every state
PropertyDocs ==
    { Document(MultistatusElem(
          <<ResponseElem(href, <<PropstatElem(PropElem(cd, lm, cl), StatusOk)>>)>>)) :
        href \in {HrefFile}, cd \in PropertyStates, lm \in PropertyStates,
        cl \in PropertyStates }

Bodies == {Unreadable, Malformed} \cup StructureDocs \cup PropertyDocs

Responses == [status : StatusCodes, body : Bodies]

\* the Responses the decoder yields for the response elements above
TypedResponses ==
    { ResponseTryFrom(parse_xml(e)).val :
        e \in {x \in ResponseElems : IsOk(ResponseTryFrom(parse_xml(x)))} }

\* every Multistatus of up to MaxResponses responses, with and without a
\* responsedescription
Multistatuses ==
    [response : UNION {[1..n -> TypedResponses] : n \in 0..MaxResponses},
     responsedescription : {None, Some(<<"d">>)}]

\* the base URL a client is built with
BaseUrl == <<"http://localhost:3080">>

\* the paths the operations are called with: the root, an absolute path, a
\* relative one, one with a trailing '/'
ClientPaths == {<<"/">>, HrefTmp, <<"t">>, HrefDir}

\* three response elements: four records
SampleResponses ==
    << ResponseElem(HrefDir, <<PropstatElem(PropElem("ok", "ok", "absent"), StatusOk)>>),
       ResponseElem(HrefFile, <<PropstatElem(PropElem("ok", "ok", "ok"), StatusOk)>>),
       ResponseElem(HrefTmp, <<PropstatElem(PropElem("bad", "ok", "absent"), StatusOk),
                               PropstatElem(PropElem("empty", "absent", "empty"),
                                            StatusNotFound)>>) >>

\* a multistatus body of a responsedescription and the first k of these responses
RecordsDoc(k) ==
    Document(MultistatusElem(<<Elem(ResponseDescriptionName, <<"d">>, <<>>)>>
                             \o SubSeq(SampleResponses, 1, k)))

\* what the transport may hand back to a request of a method
Replies(method) ==
    CASE method = "PROPFIND" ->
           {TransportError}
           \cup {TransportResponse(207, b) :
                   b \in {RecordsDoc(3), RecordsDoc(1), RecordsDoc(0), Malformed, Unreadable}}
           \cup {TransportResponse(c, RecordsDoc(1)) : c \in {401, 403, 404, 500}}
      [] method \in {"DELETE", "MOVE", "PUT"} ->
           {TransportError, TransportResponse(204, Unreadable)}
           \cup {TransportResponse(c, Malformed) : c \in {201, 400, 401, 403, 404, 500}}
      [] method = "MKCOL" ->
           {TransportError}
           \cup {TransportResponse(c, Malformed) : c \in {201, 401, 405}}
      [] method = "GET" ->
           {TransportError, TransportResponse(200, Unreadable),
            TransportResponse(200, Malformed)}

\* the operations this client does not support
UnsupportedOps == {"setstat", "symlink", "copy", "exec", "append", "create", "open"}

-----------------------------------------------------------------------------
(* The state machine *)

clientVars == <<wrkdir, connected, pc, call, ret, requests, replies, again, session>>

\* what an operation is called with
Call(name, p, dest, size) == [name |-> name, path |-> p, dest |-> dest, size |-> size]

\* a request handed to the transport
Request(method, u, dest) == [method |-> method, url |-> u, dest |-> dest]

\* no Multistatus is being encoded
NoRoundTrip ==
    /\ original = [response |-> <<>>, responsedescription |-> None]
    /\ encoded = None
    /\ decodedBack = Err("pending")

\* WebDAVFs::new
NewClient ==
    /\ wrkdir = <<"/">>
    /\ connected = FALSE
    /\ pc = "idle"
    /\ call = Call("new", <<>>, <<>>, 0)
    /\ ret = Ok(<<>>)
    /\ requests = <<>>
    /\ replies = <<>>
    /\ again = FALSE
    /\ session = "new"

\* no ResponseParser has been built
NoParser ==
    /\ response = [status |-> 200, body |-> Malformed]
    /\ op = "none"
    /\ result = Err("none")
    /\ bodyRead = FALSE
    /\ multistatus = Err("none")
    /\ runs = <<>>

\* ResponseParser::from(response), on a machine with some local directories
Init ==
    /\ response \in Responses
    /\ localDirs \in SUBSET LocalPaths
    /\ op = "none"
    /\ result = Err("none")
    /\ bodyRead = FALSE
    /\ multistatus = Err("none")
    /\ runs = <<>>
    /\ NoRoundTrip
    /\ NewClient

\* ResponseParser::status(&self)
Status ==
    /\ op # "files"
    /\ op' = "status"
    /\ result' = status(response)
    /\ UNCHANGED <<response, localDirs, bodyRead, multistatus, runs, original, encoded, decodedBack, clientVars>>

\* ResponseParser::files(self): consumes the parser
Files ==
    /\ op # "files"
    /\ op' = "files"
    /\ result' = files(response, localDirs)
    /\ bodyRead' = files_reads_bytes(response)
    /\ multistatus' = IF files_parses(response) THEN from_xml(response.body) ELSE multistatus
    /\ UNCHANGED <<response, localDirs, runs, original, encoded, decodedBack, clientVars>>

\* a directory of the local machine is created or removed
LocalFsChange ==
    /\ \E p \in LocalPaths :
         localDirs' = IF p \in localDirs THEN localDirs \ {p} ELSE localDirs \cup {p}
    /\ UNCHANGED <<response, op, result, bodyRead, multistatus, runs, original, encoded, decodedBack, clientVars>>

Next == Status \/ Files \/ LocalFsChange

Spec == Init /\ [][Next]_vars

\* every status code of http::StatusCode, on two bodies
AllStatusCodes == 100..999

InitAllCodes ==
    /\ response \in [status : AllStatusCodes,
                      body : {Malformed, Document(MultistatusElem(<<>>))}]
    /\ localDirs \in SUBSET LocalPaths
    /\ op = "none"
    /\ result = Err("none")
    /\ bodyRead = FALSE
    /\ multistatus = Err("none")
    /\ runs = <<>>
    /\ NoRoundTrip
    /\ NewClient

SpecAllCodes == InitAllCodes /\ [][Next]_vars

-----------------------------------------------------------------------------
(* Encoding a Multistatus and decoding it back *)

InitRoundTrip ==
    /\ original \in Multistatuses
    /\ encoded = None
    /\ decodedBack = Err("pending")
    /\ localDirs = {}
    /\ NoParser
    /\ NewClient

\* Value::from(multistatus)
EncodeMultistatus ==
    /\ encoded = None
    /\ encoded' = Some(ValueFromMultistatus(original))
    /\ UNCHANGED <<original, decodedBack, response, localDirs, op, result, bodyRead,
                   multistatus, runs, clientVars>>

\* Multistatus::try_from(&value)
DecodeMultistatus ==
    /\ encoded # None
    /\ decodedBack = Err("pending")
    /\ decodedBack' = MultistatusTryFrom(encoded[1])
    /\ UNCHANGED <<original, encoded, response, localDirs, op, result, bodyRead,
                   multistatus, runs, clientVars>>

NextRoundTrip == EncodeMultistatus \/ DecodeMultistatus

SpecRoundTrip == InitRoundTrip /\ [][NextRoundTrip]_vars

-----------------------------------------------------------------------------
(* The reducer run several times on the same bytes *)

InitTwice ==
    /\ response \in [status : {207}, body : Bodies \ {Unreadable}]
    /\ localDirs \in SUBSET LocalPaths
    /\ op = "none"
    /\ result = Err("none")
    /\ bodyRead = FALSE
    /\ multistatus = Err("none")
    /\ runs = <<>>
    /\ NoRoundTrip
    /\ NewClient

\* ResponseParser::parse_propfind(bytes), once more on the same bytes
ParsePropfind ==
    /\ Len(runs) < MaxRuns
    /\ runs' = Append(runs, parse_propfind(response.body, localDirs))
    /\ UNCHANGED <<response, localDirs, op, result, bodyRead, multistatus,
                   original, encoded, decodedBack, clientVars>>

NextTwice == ParsePropfind \/ LocalFsChange

SpecTwice == InitTwice /\ [][NextTwice]_vars

-----------------------------------------------------------------------------
(* The client.  An operation that talks to the server is a call, which hands a
   request to the transport and blocks, and a return, which takes what the
   transport hands back and runs the rest of the operation; the client is used
   through `&mut self`, so nothing else runs in between. *)

\* the number of components of a path, each one character long
Depth(p) == Cardinality({i \in 1..Len(p) : p[i] # "/"})

InitClient ==
    /\ localDirs \in SUBSET {HrefTmp}
    /\ NewClient
    /\ NoParser
    /\ NoRoundTrip

\* an operation is called and hands its first request to the transport
Calls(c, request) ==
    /\ pc = "idle"
    /\ pc' = "await"
    /\ call' = c
    /\ requests' = <<request>>
    /\ replies' = <<>>
    /\ ret' = Err("pending")
    /\ again' = ( /\ c.name = "create_dir"
                  /\ call.name = "create_dir"
                  /\ call.path = c.path
                  /\ IsOk(ret) )
    /\ UNCHANGED <<wrkdir, connected, session, response, localDirs, op, result, bodyRead,
                   multistatus, runs, original, encoded, decodedBack>>

\* the transport hands back a reply and the operation of that name returns
Returns(name, reply, r) ==
    /\ pc = "await"
    /\ call.name = name
    /\ pc' = "idle"
    /\ replies' = Append(replies, reply)
    /\ ret' = r
    /\ UNCHANGED <<call, requests, again, session, connected, response, localDirs, op,
                   result, bodyRead, multistatus, runs, original, encoded, decodedBack>>

\* an operation that hands nothing to the transport is called and returns
Completes(c, r) ==
    /\ pc = "idle"
    /\ call' = c
    /\ requests' = <<>>
    /\ replies' = <<>>
    /\ ret' = r
    /\ again' = FALSE
    /\ session' = IF c.name \in {"connect", "disconnect"} THEN c.name ELSE session
    /\ UNCHANGED <<pc, wrkdir, response, localDirs, op, result, bodyRead, multistatus,
                   runs, original, encoded, decodedBack>>

\* Disconnect leaving the flag as it is
DisconnectKeepingFlag ==
    /\ Completes(Call("disconnect", <<>>, <<>>, 0), Ok(<<>>))
    /\ UNCHANGED connected

\* WebDAVFs::connect
Connect ==
    /\ Completes(Call("connect", <<>>, <<>>, 0), Ok(<<>>))
    /\ connected' = TRUE

\* WebDAVFs::disconnect
Disconnect ==
    /\ Completes(Call("disconnect", <<>>, <<>>, 0), Ok(<<>>))
    /\ connected' = FALSE

\* WebDAVFs::is_connected
IsConnected ==
    /\ Completes(Call("is_connected", <<>>, <<>>, 0), Ok(connected))
    /\ UNCHANGED connected

\* WebDAVFs::pwd
Pwd ==
    /\ Completes(Call("pwd", <<>>, <<>>, 0), Ok(wrkdir))
    /\ UNCHANGED connected

\* WebDAVFs::change_dir, up to the PROPFIND of its list_dir
ChangeDir ==
    \E p \in ClientPaths :
        /\ Depth(path(wrkdir, p)) <= MaxDepth
        /\ Calls(Call("change_dir", p, <<>>, 0),
                 Request("PROPFIND", url(BaseUrl, wrkdir, path(wrkdir, p), TRUE, localDirs),
                         <<>>))

\* WebDAVFs::change_dir, from the reply on
ChangeDirReturns ==
    \E reply \in Replies("PROPFIND") :
        /\ Returns("change_dir", reply,
                   ChangeDirOf(path(wrkdir, call.path),
                               list_dir(request_files(reply, localDirs))))
        /\ wrkdir' = WrkdirAfter(wrkdir, path(wrkdir, call.path),
                                 list_dir(request_files(reply, localDirs)))

\* WebDAVFs::list_dir, up to its PROPFIND
ListDir ==
    \E p \in ClientPaths :
        Calls(Call("list_dir", p, <<>>, 0),
              Request("PROPFIND", url(BaseUrl, wrkdir, p, TRUE, localDirs), <<>>))

\* WebDAVFs::list_dir, from the reply on
ListDirReturns ==
    /\ \E reply \in Replies("PROPFIND") :
          Returns("list_dir", reply, list_dir(request_files(reply, localDirs)))
    /\ UNCHANGED wrkdir

\* WebDAVFs::stat, up to its PROPFIND
Stat ==
    \E p \in ClientPaths :
        Calls(Call("stat", p, <<>>, 0),
              Request("PROPFIND", url(BaseUrl, wrkdir, p, FALSE, localDirs), <<>>))

\* WebDAVFs::stat, from the reply on
StatReturns ==
    /\ \E reply \in Replies("PROPFIND") :
          Returns("stat", reply, stat(request_files(reply, localDirs)))
    /\ UNCHANGED wrkdir

\* WebDAVFs::setstat, symlink, copy, exec, append, create and open
Unsupported ==
    /\ \E name \in UnsupportedOps :
          Completes(Call(name, <<>>, <<>>, 0), Err("UnsupportedFeature"))
    /\ UNCHANGED connected

\* WebDAVFs::exists, up to the PROPFIND of its stat
Exists ==
    \E p \in ClientPaths :
        Calls(Call("exists", p, <<>>, 0),
              Request("PROPFIND", url(BaseUrl, wrkdir, p, FALSE, localDirs), <<>>))

\* WebDAVFs::exists, from the reply on
ExistsReturns ==
    /\ \E reply \in Replies("PROPFIND") :
          Returns("exists", reply, exists(stat(request_files(reply, localDirs))))
    /\ UNCHANGED wrkdir

\* WebDAVFs::remove_file, up to its DELETE
RemoveFile ==
    \E p \in ClientPaths :
        Calls(Call("remove_file", p, <<>>, 0),
              Request("DELETE", url(BaseUrl, wrkdir, p, FALSE, localDirs), <<>>))

\* WebDAVFs::remove_file, from the reply on
RemoveFileReturns ==
    /\ \E reply \in Replies("DELETE") : Returns("remove_file", reply, request_status(reply))
    /\ UNCHANGED wrkdir

\* WebDAVFs::remove_dir, and remove_dir_all, which is self.remove_dir(path), up
\* to the DELETE
RemoveDir ==
    \E name \in {"remove_dir", "remove_dir_all"}, p \in ClientPaths :
        Calls(Call(name, p, <<>>, 0),
              Request("DELETE", url(BaseUrl, wrkdir, p, TRUE, localDirs), <<>>))

\* WebDAVFs::remove_dir and remove_dir_all, from the reply on
RemoveDirReturns ==
    /\ \E name \in {"remove_dir", "remove_dir_all"}, reply \in Replies("DELETE") :
          Returns(name, reply, request_status(reply))
    /\ UNCHANGED wrkdir

\* WebDAVFs::create_dir, up to the PROPFIND of its stat
CreateDir ==
    \E p \in ClientPaths :
        Calls(Call("create_dir", p, <<>>, 0),
              Request("PROPFIND", url(BaseUrl, wrkdir, p, FALSE, localDirs), <<>>))

\* WebDAVFs::create_dir, from the reply to the PROPFIND on: it returns, or
\* hands the MKCOL to the transport
CreateDirStatReturns ==
    /\ pc = "await"
    /\ call.name = "create_dir"
    /\ Len(replies) = 0
    /\ \E propfind \in Replies("PROPFIND") :
          /\ replies' = <<propfind>>
          /\ IF MkcolIssued(stat(request_files(propfind, localDirs)))
             THEN /\ requests' =
                       Append(requests,
                              Request("MKCOL",
                                      url(BaseUrl, wrkdir, call.path, TRUE, localDirs),
                                      <<>>))
                  /\ UNCHANGED <<pc, ret>>
             ELSE /\ pc' = "idle"
                  /\ ret' = Err("DirectoryAlreadyExists")
                  /\ UNCHANGED requests
    /\ UNCHANGED <<call, again, session, wrkdir, connected, response, localDirs, op,
                   result, bodyRead, multistatus, runs, original, encoded, decodedBack>>

\* WebDAVFs::create_dir, from the reply to the MKCOL on
CreateDirReturns ==
    /\ Len(replies) = 1
    /\ \E mkcol \in Replies("MKCOL") : Returns("create_dir", mkcol, request_status(mkcol))
    /\ UNCHANGED wrkdir

\* WebDAVFs::mov, up to its MOVE
Mov ==
    \E src \in ClientPaths, dest \in ClientPaths :
        Calls(Call("mov", src, dest, 0),
              Request("MOVE", url(BaseUrl, wrkdir, src, FALSE, localDirs),
                      url(BaseUrl, wrkdir, dest, FALSE, localDirs)))

\* WebDAVFs::mov, from the reply on
MovReturns ==
    /\ \E reply \in Replies("MOVE") : Returns("mov", reply, request_status(reply))
    /\ UNCHANGED wrkdir

\* WebDAVFs::create_file, up to its PUT: the reader is read to its end first
CreateFile ==
    \E p \in ClientPaths, size \in 0..MaxContent, reads \in BOOLEAN :
        IF reads
        THEN Calls(Call("create_file", p, <<>>, size),
                   Request("PUT", url(BaseUrl, wrkdir, p, FALSE, localDirs), <<>>))
        ELSE /\ Completes(Call("create_file", p, <<>>, size), Err("IoError"))
             /\ UNCHANGED connected

\* WebDAVFs::create_file, from the reply on
CreateFileReturns ==
    /\ \E reply \in Replies("PUT") :
          Returns("create_file", reply, create_file(reply, call.size))
    /\ UNCHANGED wrkdir

\* WebDAVFs::open_file, up to its GET
OpenFile ==
    \E p \in ClientPaths :
        Calls(Call("open_file", p, <<>>, 0),
              Request("GET", url(BaseUrl, wrkdir, p, FALSE, localDirs), <<>>))

\* WebDAVFs::open_file, from the reply on: the body is copied to dest
OpenFileReturns ==
    /\ \E reply \in Replies("GET"), size \in 0..MaxContent, writes \in BOOLEAN :
          Returns("open_file", reply, open_file(reply, size, writes))
    /\ UNCHANGED wrkdir

NextClient ==
    \/ Connect \/ Disconnect \/ IsConnected \/ Pwd
    \/ ChangeDir \/ ChangeDirReturns \/ ListDir \/ ListDirReturns \/ Stat \/ StatReturns
    \/ Unsupported \/ Exists \/ ExistsReturns \/ RemoveFile \/ RemoveFileReturns
    \/ RemoveDir \/ RemoveDirReturns \/ CreateDir \/ CreateDirStatReturns
    \/ CreateDirReturns \/ Mov \/ MovReturns \/ CreateFile \/ CreateFileReturns
    \/ OpenFile \/ OpenFileReturns

SpecClient == InitClient /\ [][NextClient]_vars

-----------------------------------------------------------------------------
(* Notions the properties share *)

\* the root element of the response body has a child element of this name
HasChild(e, name) == \E i \in 1..Len(e.children) : e.children[i].name = name

\* the response at hand is a 2xx response carrying a well-formed document
SuccessDocument == is_success(response.status) /\ response.body.kind = "xml"

\* equality of two results
Same(a, b) == a.tag = b.tag /\ a.err = b.err /\ (a.tag = "Ok" => a.val = b.val)

\* the Responses decoded last
Decoded == multistatus.val.response

RECURSIVE RecordsBefore(_, _)
\* the number of prop blocks in the Propstat responses before the i-th
RecordsBefore(responses, i) ==
    IF i = 1 THEN 0
    ELSE RecordsBefore(responses, i - 1)
         + (IF responses[i - 1].variant = "Propstat"
            THEN Len(responses[i - 1].propstat) ELSE 0)

\* the position, in the returned list, of the j-th propstat of the i-th Response
RecordIndex(i, j) == RecordsBefore(Decoded, i) + j

\* the prop blocks of the Multistatus decoded last, as (response, propstat) indices
PropBlocks ==
    UNION { {<<i, j>> : j \in 1..Len(Decoded[i].propstat)} : i \in 1..Len(Decoded) }

PropsOf(ij) == Decoded[ij[1]].propstat[ij[2]].prop

AbsentOrEmpty(x) == x = None \/ x = Some(None)

\* the text of the href child of a response element
HrefText(e) == e.children[CHOOSE i \in 1..Len(e.children) : e.children[i].name = HrefName].text

CountChildren(e, name) == Cardinality({i \in 1..Len(e.children) : e.children[i].name = name})

RECURSIVE DocumentPaths(_)
\* the href of every response element, once per propstat child, in document order
DocumentPaths(children) ==
    IF children = <<>> THEN <<>>
    ELSE (IF Head(children).name = ResponseName
          THEN [j \in 1..CountChildren(Head(children), PropstatName) |-> HrefText(Head(children))]
          ELSE <<>>) \o DocumentPaths(Tail(children))

\* the ValueMap without the entry of a key
RemoveKey(entries, key) == SelectSeq(entries, LAMBDA e : e.key # key)

\* the body is not a multistatus: not well-formed, a top-level value that is no
\* Map, or a response element without href
Undecodable(body) ==
    \/ body.kind = "malformed"
    \/ body.kind = "xml" /\ ~is_map(parse_xml(body.root))
    \/ body.kind = "xml" /\ \E i \in 1..Len(body.root.children) :
          /\ body.root.children[i].name = ResponseName
          /\ ~HasChild(body.root.children[i], HrefName)

-----------------------------------------------------------------------------
(* Properties *)

\* C1: status() maps the outer status code, and nothing else, to its outcome:
\* every 2xx is Ok(()), 401 is AuthenticationFailed, 403 is CouldNotOpenFile,
\* 400 and 404 are NoSuchFileOrDirectory, every other code is ProtocolError.
C1_StatusMapping ==
    op = "status" =>
        /\ response.status \in 200..299 => result = Ok(<<>>)
        /\ response.status = 401 => result = Err("AuthenticationFailed")
        /\ response.status = 403 => result = Err("CouldNotOpenFile")
        /\ response.status \in {400, 404} => result = Err("NoSuchFileOrDirectory")
        /\ response.status \notin (200..299) \cup {400, 401, 403, 404}
              => result = Err("ProtocolError")

\* status() has answered a 400 with NoSuchFileOrDirectory
C1_Witness ==
    op = "status" /\ response.status = 400 /\ result = Err("NoSuchFileOrDirectory")

\* C2: on a response whose status is not 2xx, files() returns the error the
\* status mapping gives that code, whatever the body is, and neither reads the
\* body nor decodes anything.
C2_FailureSkipsBody ==
    (op = "files" /\ response.status \notin 200..299) =>
        /\ result = status(response)
        /\ ~IsOk(result)
        /\ ~bodyRead
        /\ multistatus = Err("none")

\* files() has answered a 401 that carries a well-formed multistatus document
C2_Witness ==
    /\ op = "files"
    /\ response.status = 401
    /\ response.body.kind = "xml"
    /\ HasChild(response.body.root, ResponseName)
    /\ result = Err("AuthenticationFailed")
    /\ ~bodyRead

\* C3: a response all of whose propstat blocks carry a failing status contributes
\* no record for its href to the returned list.
C3_FailingPropstatsGiveNoRecord ==
    (op = "files" /\ IsOk(multistatus) /\ IsOk(result)) =>
        \A i \in 1..Len(Decoded) :
            ( /\ Decoded[i].variant = "Propstat"
              /\ \A j \in 1..Len(Decoded[i].propstat) :
                    ~is_success(Decoded[i].propstat[j].status) )
            => \A k \in 1..Len(result.val) : result.val[k].path # Decoded[i].href

\* C4: a record is a Directory exactly when its href ends with '/'.
C4_DirectoryIffTrailingSlash ==
    (op = "files" /\ IsOk(result)) =>
        \A k \in 1..Len(result.val) :
            (result.val[k].metadata.file_type = "Directory")
                <=> ends_with_slash(result.val[k].path)

\* C5: of a decoded multistatus the reducer returns one record per propstat block
\* of every Propstat response and none for a status-only response, responses in
\* order and propstats in order within a response, each record's path the href
\* of its response; the order is the document's.
C5_OneRecordPerPropstat ==
    (op = "files" /\ IsOk(multistatus)) =>
        /\ IsOk(result)
        /\ Len(result.val) = RecordsBefore(Decoded, Len(Decoded) + 1)
        /\ \A ij \in PropBlocks :
              /\ result.val[RecordIndex(ij[1], ij[2])].path = Decoded[ij[1]].href
              /\ (result.val[RecordIndex(ij[1], ij[2])].metadata.modified # None)
                    <=> IsSomeSomeOk(getlastmodified(PropsOf(ij)))
        /\ ~HasChild(response.body.root, UnknownName) =>
              [k \in 1..Len(result.val) |-> result.val[k].path]
                  = DocumentPaths(response.body.root.children)

\* the reducer has returned three records for two responses, the second with two
\* propstat blocks
C5_Witness ==
    /\ op = "files"
    /\ IsOk(multistatus)
    /\ Len(Decoded) = 2
    /\ Decoded[1].href = HrefFile
    /\ Len(Decoded[2].propstat) = 2
    /\ IsOk(result)
    /\ [k \in 1..Len(result.val) |-> result.val[k].path] = <<HrefFile, HrefTmp, HrefTmp>>

\* C6: a multistatus document without response elements gives Ok and no records
\* (stated of the documents whose root has other children, which decode to a Map).
C6_NoResponseElementsGiveEmptyList ==
    ( /\ op = "files"
      /\ SuccessDocument
      /\ is_map(parse_xml(response.body.root))
      /\ ~HasChild(response.body.root, ResponseName) )
    => result = Ok(<<>>)

\* C7: a prop block whose creationdate, getlastmodified and getcontentlength are
\* each absent or present but empty still gives its record, with no timestamps
\* and size 0.
C7_AbsentOrEmptyGiveDefaults ==
    (op = "files" /\ IsOk(multistatus)) =>
        /\ IsOk(result)
        /\ \A ij \in PropBlocks :
              ( /\ AbsentOrEmpty(creationdate(PropsOf(ij)))
                /\ AbsentOrEmpty(getlastmodified(PropsOf(ij)))
                /\ AbsentOrEmpty(getcontentlength(PropsOf(ij))) )
              => /\ RecordIndex(ij[1], ij[2]) <= Len(result.val)
                 /\ result.val[RecordIndex(ij[1], ij[2])].metadata.created = None
                 /\ result.val[RecordIndex(ij[1], ij[2])].metadata.modified = None
                 /\ result.val[RecordIndex(ij[1], ij[2])].metadata.size = 0

\* the reducer has returned the record of a prop block with creationdate absent
\* and the other two properties present but empty
C7_Witness ==
    /\ op = "files"
    /\ IsOk(multistatus)
    /\ Len(Decoded) = 1
    /\ Decoded[1].variant = "Propstat"
    /\ creationdate(Decoded[1].propstat[1].prop) = None
    /\ getlastmodified(Decoded[1].propstat[1].prop) = Some(None)
    /\ getcontentlength(Decoded[1].propstat[1].prop) = Some(None)
    /\ IsOk(result)
    /\ Len(result.val) = 1
    /\ result.val[1].metadata.size = 0

\* C8: a property that is present but fails to decode fails nothing: every prop
\* block still gives its record, a field whose property failed keeps its default,
\* and a field whose property decoded holds the decoded value, in that record
\* and in every other.
C8_PropertyErrorsAreContained ==
    (op = "files" /\ IsOk(multistatus)) =>
        /\ IsOk(result)
        /\ \A ij \in PropBlocks :
              /\ RecordIndex(ij[1], ij[2]) <= Len(result.val)
              /\ IsSomeSomeErr(creationdate(PropsOf(ij)))
                    => result.val[RecordIndex(ij[1], ij[2])].metadata.created = None
              /\ IsSomeSomeErr(getlastmodified(PropsOf(ij)))
                    => result.val[RecordIndex(ij[1], ij[2])].metadata.modified = None
              /\ IsSomeSomeErr(getcontentlength(PropsOf(ij)))
                    => result.val[RecordIndex(ij[1], ij[2])].metadata.size = 0
              /\ IsSomeSomeOk(creationdate(PropsOf(ij)))
                    => result.val[RecordIndex(ij[1], ij[2])].metadata.created
                          = Some(creationdate(PropsOf(ij))[1][1].val)
              /\ IsSomeSomeOk(getlastmodified(PropsOf(ij)))
                    => result.val[RecordIndex(ij[1], ij[2])].metadata.modified
                          = Some(getlastmodified(PropsOf(ij))[1][1].val)
              /\ IsSomeSomeOk(getcontentlength(PropsOf(ij)))
                    => result.val[RecordIndex(ij[1], ij[2])].metadata.size
                          = getcontentlength(PropsOf(ij))[1][1].val

\* the reducer has returned, after the full record of another response, the
\* record of a prop block whose creationdate failed to decode and whose
\* getlastmodified decoded
C8_Witness ==
    /\ op = "files"
    /\ IsOk(multistatus)
    /\ Len(Decoded) = 2
    /\ Decoded[1].href = HrefFile
    /\ Decoded[2].href = HrefTmp
    /\ IsSomeSomeErr(creationdate(Decoded[2].propstat[1].prop))
    /\ IsOk(result)
    /\ result.val[1].metadata.size = 486
    /\ result.val[2].metadata.created = None
    /\ result.val[2].metadata.modified = Some(1709394286)

\* C9: a multistatus Map with response children and a child of an unknown name
\* decodes to what the same Map without that child decodes to.
C9_UnknownChildrenIgnored ==
    ( /\ op = "files"
      /\ SuccessDocument
      /\ HasChild(response.body.root, ResponseName)
      /\ HasChild(response.body.root, UnknownName) )
    => Same(multistatus,
            MultistatusTryFrom(
                Map(RemoveKey(parse_xml(response.body.root).entries, UnknownName))))

\* C10: a 2xx response whose body does not decode into a Multistatus gives
\* ProtocolError and no records, also when responses before the failing one
\* decoded.
C10_UndecodableBodyIsProtocolError ==
    (op = "files" /\ is_success(response.status) /\ response.body.kind # "unreadable") =>
        /\ ~IsOk(multistatus) => result = Err("ProtocolError")
        /\ Undecodable(response.body) => result = Err("ProtocolError")

\* the reducer has answered a document whose second response has no href, the
\* first being a decodable response
C10_Witness ==
    /\ op = "files"
    /\ is_success(response.status)
    /\ response.body.kind = "xml"
    /\ Len(response.body.root.children) = 2
    /\ response.body.root.children[1].name = ResponseName
    /\ HasChild(response.body.root.children[1], HrefName)
    /\ response.body.root.children[2].name = ResponseName
    /\ ~HasChild(response.body.root.children[2], HrefName)
    /\ result = Err("ProtocolError")

\* C11: encoding a Multistatus into a Value and decoding that Value gives the
\* Multistatus back: the same responses in the same order and the same
\* responsedescription, for no, one and several responses.
C11_RoundTrip ==
    decodedBack.err # "pending" =>
        /\ IsOk(decodedBack)
        /\ Len(decodedBack.val.response) = Len(original.response)
        /\ \A i \in 1..Len(original.response) :
              decodedBack.val.response[i] = original.response[i]
        /\ decodedBack.val.responsedescription = original.responsedescription
        /\ decodedBack.val = original

\* a Multistatus of a status-only response, then another response, and a
\* responsedescription has come back from its encoding
C11_Witness ==
    /\ decodedBack.tag = "Ok"
    /\ Len(original.response) = 2
    /\ original.response[1].variant = "Status"
    /\ original.response[2].variant = "Propstat"
    /\ original.responsedescription = Some(<<"d">>)
    /\ encoded # None
    /\ is_list(Lookup(encoded[1].entries, ResponseName)[1])
    /\ decodedBack.val = original

\* C12: the reducer run twice on the same bytes returns equal record lists,
\* whatever happened to the local filesystem between the two runs.
C12_RunsAgree ==
    \A i \in 1..Len(runs) : \A j \in 1..Len(runs) : Same(runs[i], runs[j])

\* the operations that change the server
MutationOps == {"remove_file", "remove_dir", "remove_dir_all", "mov", "create_file"}

\* C13: once the transport has answered a remove_file, remove_dir,
\* remove_dir_all, mov or create_file, the status code of the answer alone
\* decides the result, whatever the body is: Ok for 2xx (for create_file, Ok of
\* the number of bytes read), else the error the status mapping gives the code.
\* When the transport fails the result is ProtocolError.
C13_MutationsGoByStatus ==
    (pc = "idle" /\ call.name \in MutationOps /\ Len(replies) = 1) =>
        /\ replies[1].kind = "error" => ret = Err("ProtocolError")
        /\ replies[1].kind = "response" =>
            /\ replies[1].status \in 200..299 =>
                  ret = IF call.name = "create_file" THEN Ok(call.size) ELSE Ok(<<>>)
            /\ replies[1].status = 401 => ret = Err("AuthenticationFailed")
            /\ replies[1].status = 403 => ret = Err("CouldNotOpenFile")
            /\ replies[1].status \in {400, 404} => ret = Err("NoSuchFileOrDirectory")
            /\ replies[1].status \notin (200..299) \cup {400, 401, 403, 404}
                  => ret = Err("ProtocolError")

\* create_file has returned the one byte it read, on a 204 whose body cannot be read
C13_Witness ==
    /\ pc = "idle"
    /\ call.name = "create_file"
    /\ call.size = 1
    /\ replies = <<TransportResponse(204, Unreadable)>>
    /\ ret = Ok(1)

\* the calling convention on the record list the reducer gave
C14_Convention(records) ==
    IsOk(records) =>
        /\ records.val = <<>> => ret = Err("NoSuchFileOrDirectory")
        /\ (records.val # <<>> /\ call.name = "stat") => ret = Ok(records.val[1])
        /\ (records.val # <<>> /\ call.name = "list_dir") =>
              /\ IsOk(ret)
              /\ Len(ret.val) = Len(records.val) - 1
              /\ \A i \in 1..Len(ret.val) : ret.val[i] = records.val[i + 1]

\* C14: stat returns the first record of the list the reducer gives, list_dir
\* the records after the first in the same order (none for a list of one
\* record), and both return NoSuchFileOrDirectory for an empty list.
C14_FirstRecordIsTheResource ==
    (pc = "idle" /\ call.name \in {"stat", "list_dir"} /\ replies[1].kind = "response")
        => C14_Convention(files(replies[1], localDirs))

\* list_dir has returned no children for a list of one record
C14_Witness ==
    /\ pc = "idle"
    /\ call.name = "list_dir"
    /\ replies = <<TransportResponse(207, RecordsDoc(1))>>
    /\ ret = Ok(<<>>)

\* what create_dir does with the outcome of its stat
C15_Checked(st) ==
    /\ IsOk(st) =>
          /\ ret = Err("DirectoryAlreadyExists")
          /\ \A i \in 1..Len(requests) : requests[i].method # "MKCOL"
    /\ ~IsOk(st) =>
          /\ Len(requests) = 2
          /\ requests[2].method = "MKCOL"
          /\ Len(replies) = 2
          /\ replies[2].kind = "error" => ret = Err("ProtocolError")
          /\ replies[2].kind = "response" => ret = status(replies[2])

\* C15 as stated: create_dir returns DirectoryAlreadyExists without a MKCOL
\* when its stat succeeds, and the status mapping of the MKCOL when its stat
\* fails; a create_dir directly after a successful create_dir of the same path
\* returns DirectoryAlreadyExists.
C15_SecondCreateDirFails ==
    (pc = "idle" /\ call.name = "create_dir") =>
        /\ C15_Checked(stat(request_files(replies[1], localDirs)))
        /\ again => ret = Err("DirectoryAlreadyExists")

\* what create_dir does with the outcome of its stat, a create_dir directly
\* after a successful one of the same path included
C15_CheckedAgain(st) ==
    /\ C15_Checked(st)
    /\ (again /\ IsOk(st)) => ret = Err("DirectoryAlreadyExists")

\* C15, amended: create_dir returns DirectoryAlreadyExists without a MKCOL when
\* its stat succeeds, and the status mapping of the MKCOL when its stat fails; a
\* create_dir directly after a successful create_dir of the same path returns
\* DirectoryAlreadyExists when its stat succeeds.
C15_CreateDirGoesByStat ==
    (pc = "idle" /\ call.name = "create_dir") =>
        C15_CheckedAgain(stat(request_files(replies[1], localDirs)))

\* a create_dir directly after a successful create_dir of the same path has
\* returned DirectoryAlreadyExists, having issued its PROPFIND only
C15_Witness ==
    /\ pc = "idle"
    /\ call.name = "create_dir"
    /\ again
    /\ Len(requests) = 1
    /\ requests[1].method = "PROPFIND"
    /\ ret = Err("DirectoryAlreadyExists")

\* the operations that resolve their path with force_dir = true, and with false
ForcedDirOps == {"list_dir", "remove_dir", "remove_dir_all"}
PlainOps == {"stat", "exists", "remove_file", "mov", "create_file", "open_file"}

\* an absolute path resolves to itself, a relative one to the working directory
\* followed by it
Resolved(p) == IF p[1] = "/" THEN p ELSE wrkdir \o p

\* the last character of a URL is a '/', the one before it is not
EndsWithOneSlash(u) == u[Len(u)] = "/" /\ u[Len(u) - 1] # "/"

\* C16: the URL of a request is the base URL followed by the resolved path;
\* with force_dir = true it ends with exactly one '/', with force_dir = false
\* nothing is appended to the resolved path.
C16_UrlResolution ==
    (call.name \in ForcedDirOps \cup PlainOps /\ requests # <<>>) =>
        /\ call.name \in PlainOps =>
              requests[1].url = BaseUrl \o Resolved(call.path)
        /\ call.name = "mov" =>
              requests[1].dest = BaseUrl \o Resolved(call.dest)
        /\ call.name \in ForcedDirOps =>
              /\ EndsWithOneSlash(requests[1].url)
              /\ requests[1].url \in {BaseUrl \o Resolved(call.path),
                                      BaseUrl \o Resolved(call.path) \o <<"/">>}

\* C17: a new client is not connected; the flag is set exactly when connect is
\* the one of connect and disconnect called last, and is_connected returns it;
\* connect and disconnect succeed and issue no request.
C17_SessionFlag ==
    /\ connected <=> session = "connect"
    /\ (pc = "idle" /\ call.name = "is_connected") => ret = Ok(session = "connect")
    /\ call.name \in {"connect", "disconnect"} => (ret = Ok(<<>>) /\ requests = <<>>)
    /\ call.name = "new" => ~connected

\* is_connected has returned false after a connect and a disconnect
C17_Witness ==
    /\ call.name = "is_connected"
    /\ session = "disconnect"
    /\ ret = Ok(FALSE)
    /\ ~connected

\* the resolved target of a change_dir, a '/' appended when it lacks one
Target(p) == IF ends_with_slash(Resolved(p)) THEN Resolved(p) ELSE Resolved(p) \o <<"/">>

\* what a change_dir leaves behind, given how the listing of its target went
C18_AllOrNothing(listing) ==
    /\ ~IsOk(listing) => (wrkdir' = wrkdir /\ ret' = Err(listing.err))
    /\ IsOk(listing) => (wrkdir' = Target(call.path) /\ IsOk(ret'))

\* C18: a change_dir whose listing of the target fails returns the error of the
\* listing and leaves the working directory as it was; one whose listing
\* succeeds sets the working directory to the resolved target.
C18_ChangeDirAllOrNothing ==
    [][(pc = "await" /\ call.name = "change_dir" /\ pc' = "idle")
          => C18_AllOrNothing(list_dir(request_files(replies'[1], localDirs)))]_vars

\* a change_dir to /c/ has failed with the transport and the working directory
\* is still /t/
C18_Witness ==
    /\ pc = "idle"
    /\ call.name = "change_dir"
    /\ call.path = HrefDir
    /\ replies = <<TransportError>>
    /\ ret = Err("ProtocolError")
    /\ wrkdir = <<"/", "t", "/">>

\* C19: the working directory is an absolute path ending with '/': it is '/'
\* at first, only a change_dir that succeeds changes it, to the resolved
\* target with a '/' appended when it lacks one, and pwd returns it.
C19_WorkingDirectory ==
    /\ wrkdir = <<"/">>
    /\ [](/\ wrkdir # <<>>
          /\ wrkdir[1] = "/"
          /\ wrkdir[Len(wrkdir)] = "/"
          /\ (pc = "idle" /\ call.name = "pwd") => ret = Ok(wrkdir))
    /\ [][wrkdir' # wrkdir =>
            /\ call.name = "change_dir"
            /\ pc = "await"
            /\ IsOk(ret')
            /\ wrkdir' = Target(call.path)]_vars

\* a change_dir to the relative path t has succeeded from / and the working
\* directory is /t/
C19_Witness ==
    /\ pc = "idle"
    /\ call.name = "change_dir"
    /\ call.path = <<"t">>
    /\ ret = Ok(<<"/", "t">>)
    /\ wrkdir = <<"/", "t", "/">>

\* exists answers with how stat went
C20_Answers(st) == ret = Ok(IsOk(st))

\* C20: exists returns no error: Ok(true) when the stat of the path succeeds,
\* Ok(false) for every failure of it, a 401, a 403, another failing status, a
\* failure of the transport and an undecodable body included.
C20_ExistsNeverFails ==
    (pc = "idle" /\ call.name = "exists") =>
        /\ IsOk(ret)
        /\ ret.val \in BOOLEAN
        /\ C20_Answers(stat(request_files(replies[1], localDirs)))
        /\ replies[1].kind = "error" => ret = Ok(FALSE)
        /\ ( /\ replies[1].kind = "response"
             /\ \/ replies[1].status \notin 200..299
                \/ replies[1].body.kind # "xml" ) => ret = Ok(FALSE)

\* exists has answered false to a 401
C20_Witness ==
    /\ pc = "idle"
    /\ call.name = "exists"
    /\ replies[1].kind = "response"
    /\ replies[1].status = 401
    /\ ret = Ok(FALSE)

====
